---- MODULE Spec2Model ----
(***************************************************************************)
(* TinyRPC::StreamBuffer (src/TinyRPC/streambuffer.h): a growable byte     *)
(* buffer with a get cursor gpos_, a put cursor ppos_, an end-of-buffer    *)
(* offset pend_, and an owned (malloc'ed) or borrowed (const) region.      *)
(*                                                                         *)
(* The state is the heap (every region ever allocated, plus the regions    *)
(* the caller owns), two StreamBuffer objects, and history variables that  *)
(* record what the caller passed in and got back.                          *)
(***************************************************************************)
EXTENDS Integers, Sequences, FiniteSets, TLC

\* ---------------------------------------------------------------- constants
GROW_SIZE == 1024
RESERVED_HEADER_SPACE == 64
\* (mutant) the build that compacts the buffer in read.
SHRINK_WITH_GET_enabled == TRUE

SHRINK_WITH_GET == FALSE

\* ------------------------------------------------------------------- bounds
\* size_t is SizeBits wide; sums and differences of sizes are taken modulo
\* SizeMod, as the unsigned arithmetic of the code is.
SizeBits == 13
SizeMod == 2 ^ SizeBits
\* No object is larger than MaxObj bytes (PTRDIFF_MAX of the size type), so a
\* caller can hand over, or receive into, at most MaxObj bytes.
MaxObj == SizeMod \div 2 - 1
\* The largest request the allocator satisfies; malloc/realloc return NULL above it.
MaxAlloc == 2400
\* Number of calls made on the two objects in one run.
MaxOps == 4
\* Sizes of the two regions the caller owns and lends to borrowed buffers.
CallerLen1 == 10
CallerLen2 == 3

Insts == {"a", "b"}
Byte == 0..255
\* An indeterminate byte: malloc'ed and never written, or read out of bounds.
Uninit == 0 - 1

Max(x, y) == IF x >= y THEN x ELSE y
Add(x, y) == (x + y) % SizeMod
Sub(x, y) == (x - y + SizeMod) % SizeMod

\* ------------------------------------------------------------ byte strings
\* A byte string is kept run-length encoded: a sequence of runs [v, len], the
\* run standing for the len bytes v, v+1, v+2, ... (modulo 256), or for len
\* indeterminate bytes when v = Uninit. A string is kept with its runs
\* maximal (Norm), so two strings are equal exactly when their encodings are.
Run(v, len) == [v |-> v, len |-> len]
Shift(v, n) == IF v = Uninit THEN Uninit ELSE (v + n) % 256
Continues(x, y) == y.v = Shift(x.v, x.len)

RECURSIVE Norm(_)
Norm(b) ==
    IF b = << >> THEN << >>
    ELSE IF Head(b).len = 0 THEN Norm(Tail(b))
    ELSE LET rest == Norm(Tail(b))
         IN  IF rest # << >> /\ Continues(Head(b), Head(rest))
             THEN <<Run(Head(b).v, Head(b).len + Head(rest).len)>> \o Tail(rest)
             ELSE <<Head(b)>> \o rest

RECURSIVE BLen(_)
BLen(b) == IF b = << >> THEN 0 ELSE Head(b).len + BLen(Tail(b))

\* The first n bytes of b (all of b when it is shorter).
RECURSIVE BTake(_, _)
BTake(b, n) ==
    IF n <= 0 \/ b = << >> THEN << >>
    ELSE IF Head(b).len <= n THEN <<Head(b)>> \o BTake(Tail(b), n - Head(b).len)
    ELSE <<Run(Head(b).v, n)>>

\* b without its first n bytes.
RECURSIVE BDrop(_, _)
BDrop(b, n) ==
    IF n <= 0 \/ b = << >> THEN b
    ELSE IF Head(b).len <= n THEN BDrop(Tail(b), n - Head(b).len)
    ELSE <<Run(Shift(Head(b).v, n), Head(b).len - n)>> \o Tail(b)

BCat(a, b) == Norm(a \o b)
\* n indeterminate bytes.
Junk(n) == Norm(<<Run(Uninit, n)>>)
\* The bytes of b at offsets [off, off + n); those past the end are indeterminate.
BSub(b, off, n) ==
    LET x == BTake(BDrop(b, off), n) IN BCat(x, Junk(n - BLen(x)))
\* b with the bytes at offsets [off, off + BLen(d)) replaced by d.
BPut(b, off, d) == BCat(BCat(BTake(b, off), d), BDrop(b, off + BLen(d)))

\* The bytes a caller passes to one write / write_head call: n bytes that
\* differ from position to position, the first one being seed.
Data(n, seed) == Norm(<<Run(seed % 256, n)>>)
\* The k-th call of a run serialises a body that starts at BodySeed(k), or
\* stamps a header that starts at HeadSeed(k): no two calls pass the same bytes.
BodySeed(k) == 7 + 50 * k
HeadSeed(k) == 130 + 50 * k
\* What the caller's own regions hold.
CallerData(n) == Norm(<<Run(200, n)>>)

VARIABLES
    mem,      \* heap: region id -> [kind, st, bytes]; ids 1 and 2 are the caller's
    inst,     \* the two StreamBuffer objects: [live, buf_, const_buf_, pend_, gpos_, ppos_]
    status,   \* "run", "fatal" (an ASSERT failed), "ub" (undefined behaviour was executed)
    last,     \* the last call: what was called, on what, with what, and what came back
    hist,     \* per object: bytes written and bytes read since construction
    acct,     \* per object: byte totals of write, write_head and read
    nops      \* calls made so far

vars == <<mem, inst, status, last, hist, acct, nops>>

\* ------------------------------------------------------------------- memory
\* Regions 1 and 2 belong to the caller; every later id is a malloc'ed region.
CallerRegions == {1, 2}
HeapRegion(n) == [kind |-> "heap", st |-> "alloc", bytes |-> Junk(n)]
CallerRegion(n) == [kind |-> "caller", st |-> "alloc", bytes |-> CallerData(n)]
Released(r) == [kind |-> r.kind, st |-> "freed", bytes |-> << >>]

\* A copy of n bytes at offset off of region ptr stays inside the region.
InBounds(m, ptr, off, n) ==
    \/ n = 0
    \/ /\ ptr \in 1..Len(m)
       /\ m[ptr].st = "alloc"
       /\ off + n <= BLen(m[ptr].bytes)

\* The n bytes at offset off; a byte outside the region is indeterminate.
Load(m, ptr, off, n) ==
    IF ptr \in 1..Len(m) THEN BSub(m[ptr].bytes, off, n) ELSE Junk(n)

\* memcpy(ptr + off, d, Len(d)), for a copy that is in bounds.
Store(m, ptr, off, d) ==
    IF d = << >> THEN m ELSE [m EXCEPT ![ptr].bytes = BPut(@, off, d)]

\* malloc(n): NULL (ok = FALSE) when the allocator cannot satisfy n bytes.
malloc(m, n) ==
    IF n > MaxAlloc
    THEN [ok |-> FALSE, ptr |-> 0, mem |-> m]
    ELSE [ok |-> TRUE, ptr |-> Len(m) + 1, mem |-> Append(m, HeapRegion(n))]

\* free(ptr): releasing a region that is not a live malloc'ed one is undefined.
free(m, ptr) ==
    [ub |-> (m[ptr].kind # "heap" \/ m[ptr].st # "alloc"),
     mem |-> [m EXCEPT ![ptr] = Released(@)]]

\* realloc(ptr, n): NULL and the old region untouched on failure; otherwise
\* the region grows in place or moves, as the allocator chooses.
realloc(m, ptr, n) ==
    IF n > MaxAlloc
    THEN {[ok |-> FALSE, ub |-> FALSE, ptr |-> 0, mem |-> m]}
    ELSE IF n = 0
    THEN {[ok |-> FALSE, ub |-> FALSE, ptr |-> 0, mem |-> [m EXCEPT ![ptr] = Released(@)]]}
    ELSE LET old == m[ptr].bytes
             grown == BSub(old, 0, n)
             bad == (m[ptr].kind # "heap" \/ m[ptr].st # "alloc")
         IN  {[ok |-> TRUE, ub |-> bad, ptr |-> Len(m) + 1,
               mem |-> Append([m EXCEPT ![ptr] = Released(@)],
                              [kind |-> "heap", st |-> "alloc", bytes |-> grown])]}
             \cup (IF bad THEN {}
                   ELSE {[ok |-> TRUE, ub |-> FALSE, ptr |-> ptr,
                          mem |-> [m EXCEPT ![ptr].bytes = grown]]})

\* ------------------------------------------------------- outcomes of a call
\* A call returns normally, with the object s, the heap m and the bytes out.
Return(s, m, out) == [s |-> s, mem |-> m, res |-> "ok", out |-> out]
\* ASSERT(cond, ...) with cond false: the process stops, nothing is changed.
Abort(s, m) == [s |-> s, mem |-> m, res |-> "fatal", out |-> << >>]
\* The call executed undefined behaviour; nothing is known from here on.
Undefined(s, m) == [s |-> s, mem |-> m, res |-> "ub", out |-> << >>]

\* ------------------------------------------------------------ StreamBuffer
\* An object that is not constructed (before construction, after destruction).
NoInst == [live |-> FALSE, buf_ |-> 0, const_buf_ |-> TRUE, pend_ |-> 0, gpos_ |-> 0, ppos_ |-> 0]

\* (mutant) a default constructor that leaves no margin before the cursors.
StreamBuffer_no_margin(m) ==
    LET a == malloc(m, RESERVED_HEADER_SPACE * 2)
    IN  Return([live |-> TRUE, buf_ |-> a.ptr, const_buf_ |-> FALSE,
                pend_ |-> RESERVED_HEADER_SPACE * 2, gpos_ |-> 0, ppos_ |-> 0],
               a.mem, << >>)

\* StreamBuffer(): malloc(RESERVED_HEADER_SPACE * 2), cursors at the margin.
StreamBuffer(m) ==
    LET a == malloc(m, RESERVED_HEADER_SPACE * 2)
    IN  Return([live |-> TRUE, buf_ |-> a.ptr, const_buf_ |-> FALSE,
                pend_ |-> RESERVED_HEADER_SPACE * 2,
                gpos_ |-> RESERVED_HEADER_SPACE,
                ppos_ |-> RESERVED_HEADER_SPACE], a.mem, << >>)

\* StreamBuffer(buf, size): a view of the caller's region buf.
StreamBufferBorrowed(m, buf, size) ==
    Return([live |-> TRUE, buf_ |-> buf, const_buf_ |-> TRUE,
            pend_ |-> size, gpos_ |-> 0, ppos_ |-> size], m, << >>)

\* (mutant) a destructor that frees buf_ whatever const_buf_ says.
Destroy_always(s, m) ==
    LET f == free(m, s.buf_)
    IN  IF f.ub THEN Undefined(NoInst, f.mem) ELSE Return(NoInst, f.mem, << >>)

\* ~StreamBuffer(): free(buf_) unless the buffer is const.
Destroy(s, m) ==
    IF ~s.const_buf_
    THEN LET f == free(m, s.buf_)
         IN  IF f.ub THEN Undefined(NoInst, f.mem) ELSE Return(NoInst, f.mem, << >>)
    ELSE Return(NoInst, m, << >>)

\* a.swap(rhs): the five std::swap calls, in the order of the code. The
\* result is the pair of objects <<a, rhs>> after the call.
swap(a, rhs) ==
    LET a1 == [a EXCEPT !.const_buf_ = rhs.const_buf_]
        r1 == [rhs EXCEPT !.const_buf_ = a.const_buf_]
        a2 == [a1 EXCEPT !.buf_ = r1.buf_]
        r2 == [r1 EXCEPT !.buf_ = a1.buf_]
        a3 == [a2 EXCEPT !.pend_ = r2.pend_]
        r3 == [r2 EXCEPT !.pend_ = a2.pend_]
        a4 == [a3 EXCEPT !.gpos_ = r3.ppos_]
        r4 == [r3 EXCEPT !.ppos_ = a3.gpos_]
        a5 == [a4 EXCEPT !.ppos_ = r4.ppos_]
        r5 == [r4 EXCEPT !.ppos_ = a4.ppos_]
    IN  <<a5, r5>>

\* (mutant) a set_buf that does not rewind gpos_.
set_buf_keep_gpos(s, m, buf, size) ==
    Return([s EXCEPT !.const_buf_ = TRUE, !.buf_ = buf, !.ppos_ = size,
                     !.pend_ = size], m, << >>)

\* set_buf(buf, size)
set_buf(s, m, buf, size) ==
    Return([s EXCEPT !.const_buf_ = TRUE, !.buf_ = buf, !.ppos_ = size,
                     !.gpos_ = 0, !.pend_ = size], m, << >>)

\* get_size()
get_size(s) == Sub(s.ppos_, s.gpos_)

\* (mutant) no check of const_buf_ before writing.
writable_always(s) == TRUE

\* The condition of the ASSERT that opens write and write_head.
writable(s) == ~s.const_buf_

\* (mutant) the bytes are copied to the start of the region, not to ppos_.
append_front(s1, m1, data) ==
    IF InBounds(m1, s1.buf_, 0, BLen(data))
    THEN {Return([s1 EXCEPT !.ppos_ = Add(@, BLen(data))],
                 Store(m1, s1.buf_, 0, data), << >>)}
    ELSE {Undefined(s1, m1)}

\* The end of write: memcpy(buf_ + ppos_, buf, size); ppos_ += size.
append(s1, m1, data) ==
    IF InBounds(m1, s1.buf_, s1.ppos_, BLen(data))
    THEN {Return([s1 EXCEPT !.ppos_ = Add(@, BLen(data))],
                 Store(m1, s1.buf_, s1.ppos_, data), << >>)}
    ELSE {Undefined(s1, m1)}

\* (mutant) the growth step is not counted from ppos_.
grown_size_from_zero(s, new_size) == Max(new_size, GROW_SIZE)

\* The size write asks realloc for: max(new_size, ppos_ + GROW_SIZE).
grown_size_of(s, new_size) == Max(new_size, Add(s.ppos_, GROW_SIZE))

\* write(buf, size), data being the size bytes at buf. The set of outcomes.
write(s, m, data) ==
    LET size == BLen(data)
        new_size == Add(size, s.ppos_)
        copy(s1, m1) == append(s1, m1, data)
    IN  IF ~writable(s) THEN {Abort(s, m)}
        ELSE IF new_size > s.pend_
        THEN LET grown_size == grown_size_of(s, new_size)
             IN  UNION {IF ~r.ok THEN {Abort(s, r.mem)}
                        ELSE IF r.ub THEN {Undefined(s, r.mem)}
                        ELSE copy([s EXCEPT !.buf_ = r.ptr, !.pend_ = grown_size], r.mem)
                        : r \in realloc(m, s.buf_, grown_size)}
        ELSE copy(s, m)

\* The compaction at the end of read (lines 109-115), on the object s1 whose
\* gpos_ was already advanced.
shrink(s1, m, out) ==
    LET len == Sub(s1.ppos_, s1.gpos_)
        moved == Store(m, s1.buf_, 0, Load(m, s1.buf_, s1.gpos_, len))
    IN  IF ~InBounds(m, s1.buf_, s1.gpos_, len) THEN {Undefined(s1, m)}
        ELSE UNION {IF ~r.ok THEN {Abort(s1, r.mem)}
                    ELSE IF r.ub THEN {Undefined(s1, r.mem)}
                    ELSE {Return([s1 EXCEPT !.buf_ = r.ptr,
                                            !.pend_ = Sub(s1.pend_, s1.gpos_),
                                            !.ppos_ = Sub(s1.ppos_, s1.gpos_),
                                            !.gpos_ = 0], r.mem, out)}
                    : r \in realloc(moved, s1.buf_, Sub(s1.pend_, s1.gpos_))}

\* (mutant) a read of all that is left is refused.
readable_strict(s, size) == Add(s.gpos_, size) < s.ppos_

\* The condition of the ASSERT that opens read.
readable(s, size) == Add(s.gpos_, size) <= s.ppos_

\* read(buf, size). The set of outcomes; out is what lands in the caller's buf.
\* A copy that leaves the region is undefined: the process may die, or go on
\* with indeterminate bytes.
read(s, m, size) ==
    IF ~readable(s, size) THEN {Abort(s, m)}
    ELSE LET out == Load(m, s.buf_, s.gpos_, size)
             s1 == [s EXCEPT !.gpos_ = Add(@, size)]
             rest == IF s1.gpos_ > GROW_SIZE /\ SHRINK_WITH_GET /\ ~s1.const_buf_
                     THEN shrink(s1, m, out)
                     ELSE {Return(s1, m, out)}
         IN  IF InBounds(m, s.buf_, s.gpos_, size) THEN rest
             ELSE {Undefined(s, m)} \cup rest

\* (mutant) the old content is placed as if it started at offset 0.
new_gpos_from_ppos(s, new_size) == Sub(new_size, s.ppos_)

\* Where the old content goes in the region write_head allocates:
\* new_gpos = new_size - (ppos_ - gpos_).
new_gpos_of(s, new_size) == Sub(new_size, Sub(s.ppos_, s.gpos_))

\* (mutant) a header exactly as long as the margin is taken for too long.
lacks_margin_or_equal(s, size) == s.gpos_ <= size

\* The test that sends write_head to its reallocation: gpos_ < size.
lacks_margin(s, size) == s.gpos_ < size

\* write_head(buf, size), data being the size bytes at buf. The set of outcomes.
write_head(s, m, data) ==
    LET size == BLen(data)
        prepend(s1, m1) ==
            LET g == Sub(s1.gpos_, size)
            IN  IF InBounds(m1, s1.buf_, g, size)
                THEN {Return([s1 EXCEPT !.gpos_ = g],
                             Store(m1, s1.buf_, g, data), << >>)}
                ELSE {Undefined(s1, m1)}
    IN  IF ~writable(s) THEN {Abort(s, m)}
        ELSE IF lacks_margin(s, size)
        THEN LET new_size == Max(Add(size, s.ppos_), Add(s.ppos_, RESERVED_HEADER_SPACE))
                 a == malloc(m, new_size)
                 len == Sub(s.ppos_, s.gpos_)
                 new_gpos == new_gpos_of(s, new_size)
             IN  IF ~a.ok THEN {Abort(s, m)}
                 ELSE IF ~(InBounds(a.mem, a.ptr, new_gpos, len) /\ InBounds(m, s.buf_, s.gpos_, len))
                 THEN {Undefined(s, m)}
                 ELSE LET m1 == Store(a.mem, a.ptr, new_gpos, Load(m, s.buf_, s.gpos_, len))
                          f == free(m1, s.buf_)
                          s1 == [s EXCEPT !.buf_ = a.ptr, !.gpos_ = new_gpos,
                                          !.ppos_ = new_size, !.pend_ = new_size]
                      IN  IF f.ub THEN {Undefined(s1, f.mem)} ELSE prepend(s1, f.mem)
        ELSE prepend(s, m)

\* ------------------------------------------------------------------ history
\* phase "w": default-constructed, only written so far; "r": then only read;
\* "b": constructed over a caller's region, only read so far; "s": took part
\* in a swap; "x": otherwise.
Hist(phase) == [phase |-> phase, wlog |-> << >>, rlog |-> << >>]
\* tracked: default-constructed and since then only written, prepended and read.
Acct(tracked) == [tracked |-> tracked, w |-> 0, h |-> 0, r |-> 0]
\* The record of a call: realloc says that the call left the object with
\* another region, or with another size of its region; const and phase are
\* the object's const_buf_ and history phase when it was called.
Call(op, i, j, data, n, r) ==
    [op |-> op, i |-> i, j |-> j, data |-> data, n |-> n, res |-> r.res, out |-> r.out,
     realloc |-> (r.s.buf_ # inst[i].buf_ \/ r.s.pend_ # inst[i].pend_),
     const |-> inst[i].const_buf_, phase |-> hist[i].phase]

\* ------------------------------------------------------------------ inputs
WriteSizes == {1, 1100}
HeadSizes == {4, 64, 100}
\* Sizes a caller asks read for: small ones, all that is left, one too many.
ReadSizes(s) == {n \in {0, 1, get_size(s), get_size(s) + 1} : n <= MaxObj}
CallerLen(buf) == IF buf = 1 THEN CallerLen1 ELSE CallerLen2

\* The effect of one call on object i with outcome r, on everything but the
\* history of the bytes.
Effect(i, r) ==
    /\ inst' = [inst EXCEPT ![i] = r.s]
    /\ mem' = r.mem
    /\ status' = IF r.res = "ok" THEN "run" ELSE r.res
    /\ nops' = nops + 1

CanCall(i) == status = "run" /\ nops < MaxOps /\ inst[i].live

\* ------------------------------------------------------------------ actions
Construct(i) ==
    /\ status = "run" /\ nops < MaxOps /\ ~inst[i].live
    /\ LET r == StreamBuffer(mem)
       IN  /\ Effect(i, r)
           /\ last' = Call("new", i, i, << >>, 0, r)
           /\ hist' = [hist EXCEPT ![i] = Hist("w")]
           /\ acct' = [acct EXCEPT ![i] = Acct(TRUE)]

ConstructBorrowed(i) ==
    /\ status = "run" /\ nops < MaxOps /\ ~inst[i].live
    /\ \E buf \in {1} :
         LET r == StreamBufferBorrowed(mem, buf, CallerLen(buf))
         IN  /\ Effect(i, r)
             /\ last' = Call("new_borrowed", i, i, << >>, CallerLen(buf), r)
             /\ hist' = [hist EXCEPT ![i] = Hist("b")]
             /\ acct' = [acct EXCEPT ![i] = Acct(FALSE)]

Destruct(i) ==
    /\ CanCall(i)
    /\ LET r == Destroy(inst[i], mem)
       IN  /\ Effect(i, r)
           /\ last' = Call("delete", i, i, << >>, 0, r)
           /\ hist' = [hist EXCEPT ![i] = Hist("x")]
           /\ acct' = [acct EXCEPT ![i] = Acct(FALSE)]

\* i.write(buf, n)
WriteCall(i, n) ==
    \E r \in write(inst[i], mem, Data(n, BodySeed(nops))) :
       /\ Effect(i, r)
       /\ last' = Call("write", i, i, Data(n, BodySeed(nops)), n, r)
       /\ hist' = [hist EXCEPT ![i] =
                     IF r.res # "ok" THEN @
                     ELSE IF @.phase = "w" THEN [@ EXCEPT !.wlog = BCat(@, Data(n, BodySeed(nops)))]
                     ELSE IF @.phase = "s" THEN @
                     ELSE Hist("x")]
       /\ acct' = [acct EXCEPT ![i].w = IF r.res = "ok" THEN @ + n ELSE @]

Write(i) ==
    /\ CanCall(i)
    /\ \E n \in WriteSizes : WriteCall(i, n)

\* i.read(buf, n)
ReadCall(i, n) ==
    \E r \in read(inst[i], mem, n) :
       /\ Effect(i, r)
       /\ last' = Call("read", i, i, << >>, n, r)
       /\ hist' = [hist EXCEPT ![i] =
                     IF r.res # "ok" THEN @
                     ELSE IF @.phase \in {"w", "r"}
                     THEN [@ EXCEPT !.phase = "r", !.rlog = BCat(@, r.out)]
                     ELSE IF @.phase = "b" THEN [@ EXCEPT !.rlog = BCat(@, r.out)]
                     ELSE @]
       /\ acct' = [acct EXCEPT ![i].r = IF r.res = "ok" THEN @ + n ELSE @]

Read(i) ==
    /\ CanCall(i)
    /\ \E n \in ReadSizes(inst[i]) : ReadCall(i, n)

WriteHead(i) ==
    /\ CanCall(i)
    /\ \E n \in HeadSizes :
         \E r \in write_head(inst[i], mem, Data(n, HeadSeed(nops))) :
            /\ Effect(i, r)
            /\ last' = Call("write_head", i, i, Data(n, HeadSeed(nops)), n, r)
            /\ hist' = [hist EXCEPT ![i] = IF r.res # "ok" \/ @.phase = "s" THEN @ ELSE Hist("x")]
            /\ acct' = [acct EXCEPT ![i].h = IF r.res = "ok" THEN @ + n ELSE @]

SetBuf(i) ==
    /\ CanCall(i)
    /\ \E buf \in {2} :
         LET r == set_buf(inst[i], mem, buf, CallerLen(buf))
         IN  /\ Effect(i, r)
             /\ last' = Call("set_buf", i, i, << >>, CallerLen(buf), r)
             /\ hist' = [hist EXCEPT ![i] = Hist("x")]
             /\ acct' = [acct EXCEPT ![i] = Acct(FALSE)]

\* i.swap(j), on two distinct objects.
Swap(i, j) ==
    /\ CanCall(i) /\ inst[j].live /\ i # j
    /\ LET p == swap(inst[i], inst[j])
       IN  /\ inst' = [inst EXCEPT ![i] = p[1], ![j] = p[2]]
           /\ last' = Call("swap", i, j, << >>, 0, Return(p[1], mem, << >>))
    /\ nops' = nops + 1
    /\ hist' = [k \in Insts |-> Hist("s")]
    /\ acct' = [k \in Insts |-> Acct(FALSE)]
    /\ UNCHANGED <<mem, status>>

\* --------------------------------------------------------------------- spec
\* The two objects right after construction, each by either constructor.
Init ==
    \E ka, kb \in {"owned", "borrowed"} :
       LET m0 == <<CallerRegion(CallerLen1), CallerRegion(CallerLen2)>>
           ra == IF ka = "owned" THEN StreamBuffer(m0)
                 ELSE StreamBufferBorrowed(m0, 1, CallerLen(1))
           rb == IF kb = "owned" THEN StreamBuffer(ra.mem)
                 ELSE StreamBufferBorrowed(ra.mem, 1, CallerLen(1))
       IN  /\ mem = rb.mem
           /\ inst = [k \in Insts |-> IF k = "a" THEN ra.s ELSE rb.s]
           /\ hist = [k \in Insts |->
                        Hist(IF (IF k = "a" THEN ka ELSE kb) = "owned" THEN "w" ELSE "b")]
           /\ acct = [k \in Insts |-> Acct((IF k = "a" THEN ka ELSE kb) = "owned")]
    /\ status = "run"
    /\ last = [op |-> "init", i |-> "a", j |-> "a", data |-> << >>, n |-> 0,
               res |-> "ok", out |-> << >>, realloc |-> FALSE, const |-> FALSE,
               phase |-> "x"]
    /\ nops = 0

Next ==
    \E i \in Insts :
       \/ Construct(i)
       \/ ConstructBorrowed(i)
       \/ Destruct(i)
       \/ Write(i)
       \/ Read(i)
       \/ WriteHead(i)
       \/ SetBuf(i)
       \/ \E j \in Insts : Swap(i, j)

Spec == Init /\ [][Next]_vars

\* ------------------------------------------- the whole range of the size type
\* The size parameter of write and read is a size_t: a caller can pass any
\* value of the type, also one above MaxObj. WideSizes are two such values:
\* the first one past MaxObj, and the largest of the type.
WideSizes == {MaxObj + 1, SizeMod - 1}

WriteWide(i) ==
    /\ CanCall(i)
    /\ \E n \in WideSizes : WriteCall(i, n)

ReadWide(i) ==
    /\ CanCall(i)
    /\ \E n \in WideSizes : ReadCall(i, n)

NextWide ==
    \/ Next
    \/ \E i \in Insts :
          \/ WriteWide(i)
          \/ ReadWide(i)

SpecWide == Init /\ [][NextWide]_vars

\* ------------------------------------------------------------------- claims
\* The logical content of s: the bytes at offsets [gpos_, ppos_) of its region.
Content(s, m) == Load(m, s.buf_, s.gpos_, s.ppos_ - s.gpos_)
\* s is an owned buffer that has a logical content: the cursors are in order
\* and lie inside the region s holds (gpos_ <= ppos_ <= pend_ <= its size).
HasContent(s, m) ==
    /\ s.live /\ ~s.const_buf_
    /\ s.buf_ \in 1..Len(m) /\ m[s.buf_].st = "alloc"
    /\ s.gpos_ <= s.ppos_
    /\ s.ppos_ <= s.pend_
    /\ s.pend_ <= BLen(m[s.buf_].bytes)

\* C1: on an owned buffer that was only written and then only read, the bytes
\* the reads returned are, in order, the first bytes that were written; once
\* as many bytes were read as were written, the two byte strings are equal.
C1_RoundTrip ==
    \A i \in Insts :
       hist[i].phase \in {"w", "r"} =>
          /\ BLen(hist[i].rlog) <= BLen(hist[i].wlog)
          /\ hist[i].rlog = BTake(hist[i].wlog, BLen(hist[i].rlog))
          /\ (BLen(hist[i].rlog) = BLen(hist[i].wlog) => hist[i].rlog = hist[i].wlog)

\* C1 witness: two writes that each reallocated (1100 bytes, then 1 more),
\* read back whole by two reads.
C1_Witness ==
    \E i \in Insts :
       /\ hist[i].phase = "r"
       /\ hist[i].rlog = hist[i].wlog
       /\ BLen(hist[i].wlog) > GROW_SIZE
       /\ inst[i].pend_ > 2 * GROW_SIZE
       /\ last.op = "read" /\ last.i = i /\ last.n > GROW_SIZE /\ acct[i].r > last.n

\* C2: gpos_ <= ppos_ <= pend_ in every object, in every state.
C2_CursorOrder ==
    \A i \in Insts :
       inst[i].live => (inst[i].gpos_ <= inst[i].ppos_ /\ inst[i].ppos_ <= inst[i].pend_)

\* C3: a write_head(H) that returns on an owned buffer of logical content B
\* (its cursors inside its region) leaves the logical content H followed by
\* B, on either path; and on such a buffer write_head executes nothing
\* undefined.
C3_HeadPrepend ==
    [][(last'.op = "write_head" /\ HasContent(inst[last'.i], mem)) =>
          /\ last'.res # "ub"
          /\ (last'.res = "ok" =>
                 Content(inst'[last'.i], mem') =
                     BCat(last'.data, Content(inst[last'.i], mem)))]_vars

\* C3 witness: a write_head that reallocated, on a buffer that had a body
\* written and a header prepended before.
C3_Witness ==
    /\ last.op = "write_head" /\ last.res = "ok" /\ last.realloc
    /\ acct[last.i].tracked
    /\ acct[last.i].w > 0
    /\ acct[last.i].h > last.n
    /\ Content(inst[last.i], mem) # << >>

\* C4: i.swap(j) leaves each object with all five fields of the other.
C4_SwapExchanges ==
    [][last'.op = "swap" =>
          /\ inst'[last'.i] = inst[last'.j]
          /\ inst'[last'.j] = inst[last'.i]]_vars

\* C5: write and write_head on a const (borrowed) buffer end in the fatal
\* failure, with no object and no byte of any region changed.
C5_BorrowedImmutable ==
    [][(last'.op \in {"write", "write_head"} /\ inst[last'.i].const_buf_) =>
          /\ last'.res = "fatal"
          /\ status' = "fatal"
          /\ inst' = inst
          /\ mem' = mem]_vars

\* C5 witness: a write or write_head refused on an object that set_buf made
\* a view of the caller's second region.
C5_Witness ==
    /\ status = "fatal"
    /\ last.op \in {"write", "write_head"}
    /\ inst[last.i].const_buf_
    /\ inst[last.i].buf_ = 2
    /\ mem[2].bytes = CallerData(CallerLen2)

\* C6: read(n) with gpos_ + n > ppos_ ends in the fatal failure, hands out no
\* byte and changes nothing; read(n) with gpos_ + n <= ppos_ passes the check,
\* and when the region holds the n bytes it returns them and advances gpos_ by n.
C6_ReadBounds ==
    [][last'.op = "read" =>
          LET s == inst[last'.i]
              n == last'.n
          IN  /\ (s.gpos_ + n > s.ppos_ =>
                     /\ last'.res = "fatal"
                     /\ last'.out = << >>
                     /\ inst' = inst
                     /\ mem' = mem)
              /\ (s.gpos_ + n <= s.ppos_ =>
                     /\ last'.res # "fatal"
                     /\ (InBounds(mem, s.buf_, s.gpos_, n) =>
                            /\ last'.res = "ok"
                            /\ last'.out = Load(mem, s.buf_, s.gpos_, n)
                            /\ inst'[last'.i].gpos_ = s.gpos_ + n))]_vars

\* C6 witness: a read of one byte more than length() was refused, on a
\* buffer that still held unread bytes.
C6_Witness ==
    /\ status = "fatal"
    /\ last.op = "read"
    /\ last.n = get_size(inst[last.i]) + 1
    /\ last.n > 1

\* C7: on a default-constructed buffer that was only written, prepended and
\* read, length() is bytes written + bytes prepended - bytes read, none of
\* these calls executes anything undefined, and length() is 0 once the bytes
\* read are all the bytes written and prepended.
C7_SizeAccounting ==
    \A i \in Insts :
       (acct[i].tracked /\ inst[i].live) =>
          /\ get_size(inst[i]) = acct[i].w + acct[i].h - acct[i].r
          /\ (acct[i].r = acct[i].w + acct[i].h => get_size(inst[i]) = 0)
          /\ ~(status = "ub" /\ last.i = i)

\* C7 witness: a body that forced a growth and a header that forced the
\* margin reallocation, then read to the last byte.
C7_Witness ==
    \E i \in Insts :
       /\ acct[i].tracked /\ inst[i].live
       /\ acct[i].w > GROW_SIZE
       /\ acct[i].h > RESERVED_HEADER_SPACE
       /\ acct[i].r = acct[i].w + acct[i].h
       /\ last.op = "read" /\ last.i = i /\ last.res = "ok"

\* C8: no region of the caller is ever freed or reallocated.
C8_BorrowedNeverFreed ==
    \A id \in CallerRegions : mem[id].kind = "caller" /\ mem[id].st = "alloc"

\* C8 witness: the destructor ran on a const object that got its view of the
\* caller's region through swap.
C8_Witness ==
    /\ last.op = "delete" /\ last.res = "ok"
    /\ last.const /\ last.phase = "s"
    /\ ~inst[last.i].live

\* The objects that own the malloc'ed region id.
Owners(id) == {i \in Insts : inst[i].live /\ ~inst[i].const_buf_ /\ inst[i].buf_ = id}

\* C9: every malloc'ed region that is not yet freed is owned by exactly one
\* live object, no owned object holds a freed region, and no free is applied
\* to a region that is already freed.
C9_ExclusiveRelease ==
    /\ \A id \in 1..Len(mem) :
          (mem[id].kind = "heap" /\ mem[id].st = "alloc") => Cardinality(Owners(id)) = 1
    /\ \A i \in Insts :
          (inst[i].live /\ ~inst[i].const_buf_) => mem[inst[i].buf_].st = "alloc"
    /\ ~(last.op = "delete" /\ last.res = "ub")

\* C10: a view constructed over a caller's region of L bytes has length()
\* = L less what was read, its reads return the region's bytes in order from
\* offset 0, every read within the L bytes returns, and every read past them
\* ends in the fatal failure.
C10_BorrowedView ==
    /\ [](\A i \in Insts :
             hist[i].phase = "b" =>
                LET L == CallerLen(inst[i].buf_)
                IN  /\ get_size(inst[i]) = L - BLen(hist[i].rlog)
                    /\ hist[i].rlog = BTake(CallerData(L), BLen(hist[i].rlog)))
    /\ [][(last'.op = "read" /\ hist[last'.i].phase = "b") =>
             LET i == last'.i
                 L == CallerLen(inst[i].buf_)
                 done == BLen(hist[i].rlog)
             IN  /\ (done + last'.n <= L => last'.res = "ok")
                 /\ (done + last'.n > L => last'.res = "fatal" /\ inst' = inst)]_vars

\* C10 witness: all bytes of the region were read and the read of one more
\* byte was refused.
C10_Witness ==
    /\ status = "fatal" /\ last.op = "read" /\ last.n = 1
    /\ hist[last.i].phase = "b"
    /\ hist[last.i].rlog = CallerData(CallerLen1)
    /\ inst[last.i].buf_ = 1

\* C11: a write(n) that returns on an owned buffer advances ppos_ by exactly
\* n; if ppos_ + n exceeded pend_ before the call, pend_ becomes
\* max(ppos_ + n, ppos_ + GROW_SIZE) of the ppos_ before the call, and the
\* region is that long; otherwise pend_, buf_ and the region's length stay.
C11_GrowthRule ==
    [][(last'.op = "write" /\ last'.res = "ok" /\ ~inst[last'.i].const_buf_) =>
          LET s == inst[last'.i]
              t == inst'[last'.i]
              n == last'.n
          IN  /\ t.ppos_ = s.ppos_ + n
              /\ (s.ppos_ + n > s.pend_ =>
                     /\ t.pend_ = Max(s.ppos_ + n, s.ppos_ + GROW_SIZE)
                     /\ BLen(mem'[t.buf_].bytes) = t.pend_)
              /\ (s.ppos_ + n <= s.pend_ =>
                     /\ t.pend_ = s.pend_
                     /\ t.buf_ = s.buf_
                     /\ BLen(mem'[t.buf_].bytes) = BLen(mem[s.buf_].bytes))]_vars

\* C11 witness: a write of one byte that grew the buffer by GROW_SIZE counted
\* from ppos_, after a write that had grown it to what it needed.
C11_Witness ==
    /\ last.op = "write" /\ last.res = "ok" /\ last.realloc /\ last.n = 1
    /\ acct[last.i].tracked /\ acct[last.i].w = 1101
    /\ inst[last.i].pend_ = inst[last.i].ppos_ - 1 + GROW_SIZE

\* C12: a write(n) that returns on an owned buffer, growing or not, leaves
\* gpos_ and every byte at offsets [0, old ppos_) where they were; the bytes
\* at [old ppos_, old ppos_ + n) are the written ones, and the bytes after
\* them are those the region had, or new indeterminate ones.
C12_WriteFrame ==
    [][(last'.op = "write" /\ last'.res = "ok" /\ ~inst[last'.i].const_buf_) =>
          LET s == inst[last'.i]
              t == inst'[last'.i]
              n == last'.n
              old == mem[s.buf_].bytes
              new == mem'[t.buf_].bytes
          IN  /\ t.gpos_ = s.gpos_
              /\ Load(mem', t.buf_, 0, s.ppos_) = Load(mem, s.buf_, 0, s.ppos_)
              /\ Load(mem', t.buf_, s.ppos_, n) = last'.data
              /\ BDrop(new, s.ppos_ + n) = BDrop(BSub(old, 0, BLen(new)), s.ppos_ + n)]_vars

\* C12 witness: a write that moved the region while a prepended header and an
\* unread body were stored in it.
C12_Witness ==
    /\ last.op = "write" /\ last.res = "ok" /\ last.realloc
    /\ acct[last.i].tracked /\ acct[last.i].h > 0 /\ acct[last.i].w > last.n
    /\ acct[last.i].r = 0
    /\ inst[last.i].buf_ > 4

\* C13: SHRINK_WITH_GET being false, a read(n) that returns advances gpos_ by
\* exactly n and changes nothing else: not ppos_, pend_, buf_, const_buf_,
\* not the other object, not a byte of any region; also when gpos_ ends
\* above GROW_SIZE.
C13_ReadFrame ==
    [][(last'.op = "read" /\ last'.res = "ok") =>
          /\ inst' = [inst EXCEPT ![last'.i].gpos_ = @ + last'.n]
          /\ mem' = mem]_vars

\* C13 witness: a read on an owned buffer that left gpos_ above GROW_SIZE
\* with bytes still unread.
C13_Witness ==
    /\ last.op = "read" /\ last.res = "ok" /\ last.n > 0
    /\ acct[last.i].tracked
    /\ inst[last.i].gpos_ > GROW_SIZE
    /\ inst[last.i].gpos_ < inst[last.i].ppos_

\* C14: write_head(n) on an owned buffer (its cursors inside its region) with
\* gpos_ >= n returns without reallocating: gpos_ decreases by exactly n, the
\* header is at [new gpos_, old gpos_), and ppos_, pend_, buf_ and every
\* other byte of every region are unchanged.
C14_HeadInMargin ==
    [][(last'.op = "write_head" /\ HasContent(inst[last'.i], mem)
          /\ inst[last'.i].gpos_ >= last'.n) =>
          LET s == inst[last'.i]
              n == last'.n
          IN  /\ last'.res = "ok"
              /\ inst' = [inst EXCEPT ![last'.i].gpos_ = @ - n]
              /\ Load(mem', s.buf_, s.gpos_ - n, n) = last'.data
              /\ Load(mem', s.buf_, s.gpos_, s.ppos_ - s.gpos_)
                    = Load(mem, s.buf_, s.gpos_, s.ppos_ - s.gpos_)
              /\ mem' = [mem EXCEPT ![s.buf_].bytes = BPut(@, s.gpos_ - n, last'.data)]]_vars

\* C14 witness: a header of exactly the margin's length prepended in place to
\* an unread body.
C14_Witness ==
    /\ last.op = "write_head" /\ last.res = "ok" /\ ~last.realloc
    /\ last.n = RESERVED_HEADER_SPACE
    /\ acct[last.i].tracked /\ acct[last.i].w > 0
    /\ inst[last.i].gpos_ = 0
    /\ Content(inst[last.i], mem) # << >>

\* C15: a default-constructed buffer starts with gpos_ = ppos_ =
\* RESERVED_HEADER_SPACE, pend_ = 2 * RESERVED_HEADER_SPACE and length 0; and
\* while it is only written, read and prepended to, a write_head that brings
\* the total of the header sizes to at most RESERVED_HEADER_SPACE finds its
\* margin, returns, and leaves buf_ and pend_ as they were.
C15_MarginSuffices ==
    /\ [](\A i \in Insts :
             (inst[i].live /\ acct[i].tracked
                 /\ acct[i].w = 0 /\ acct[i].h = 0 /\ acct[i].r = 0) =>
                /\ inst[i].gpos_ = 64 /\ inst[i].ppos_ = 64 /\ inst[i].pend_ = 128
                /\ ~inst[i].const_buf_
                /\ get_size(inst[i]) = 0)
    /\ [][(last'.op = "write_head" /\ acct[last'.i].tracked
             /\ acct[last'.i].h + last'.n <= 64) =>
             /\ inst[last'.i].gpos_ >= last'.n
             /\ last'.res = "ok"
             /\ inst'[last'.i].buf_ = inst[last'.i].buf_
             /\ inst'[last'.i].pend_ = inst[last'.i].pend_]_vars

\* C15 witness: a buffer written, read, and prepended to twice, in place.
C15_Witness ==
    /\ last.op = "write_head" /\ last.res = "ok" /\ ~last.realloc
    /\ acct[last.i].tracked
    /\ acct[last.i].h > last.n /\ acct[last.i].h <= RESERVED_HEADER_SPACE
    /\ acct[last.i].w > 0 /\ acct[last.i].r > 0

\* C16: set_buf(data, length) on any object, owned or borrowed, leaves the
\* object that StreamBuffer(data, length) constructs: const, buf_ = data,
\* gpos_ = 0, ppos_ = pend_ = length; a read of the length bytes then returns
\* data's bytes, and write and write_head end in the fatal failure.
C16_SetBufAsConstructed ==
    [][last'.op = "set_buf" =>
          LET t == inst'[last'.i]
              n == last'.n
          IN  /\ \E buf \in CallerRegions :
                    /\ n = CallerLen(buf)
                    /\ t = StreamBufferBorrowed(mem, buf, n).s
                    /\ t = [live |-> TRUE, buf_ |-> buf, const_buf_ |-> TRUE,
                            pend_ |-> n, gpos_ |-> 0, ppos_ |-> n]
              /\ last'.res = "ok"
              /\ get_size(t) = n
              /\ read(t, mem', n) = {Return([t EXCEPT !.gpos_ = n], mem', CallerData(n))}
              /\ read(t, mem', n + 1) = {Abort(t, mem')}
              /\ \A k \in WriteSizes : write(t, mem', Data(k, 0)) = {Abort(t, mem')}
              /\ \A k \in HeadSizes : write_head(t, mem', Data(k, 0)) = {Abort(t, mem')}]_vars

\* C16 witness: set_buf on an owned buffer that had been written and read.
C16_Witness ==
    /\ last.op = "set_buf" /\ last.res = "ok"
    /\ ~last.const /\ last.phase = "r"
    /\ inst[last.i].const_buf_ /\ inst[last.i].gpos_ = 0

\* C17: in every reachable state, the byte copy of a read, write or
\* write_head that gets past its checks stays inside the region buf_ points
\* to: the read copies [gpos_, gpos_ + n) of a live region that long, and no
\* write or write_head executes an out-of-bounds copy.
C17_CopiesInBounds ==
    [][/\ (last'.op = "read" /\ last'.res # "fatal") =>
             /\ last'.res = "ok"
             /\ InBounds(mem, inst[last'.i].buf_, inst[last'.i].gpos_, last'.n)
             /\ inst[last'.i].gpos_ + last'.n <= inst[last'.i].pend_
       /\ (last'.op \in {"write", "write_head"} /\ last'.res # "fatal") =>
             /\ last'.res = "ok"
             /\ inst'[last'.i].ppos_ <= inst'[last'.i].pend_
             /\ inst'[last'.i].pend_ <= BLen(mem'[inst'[last'.i].buf_].bytes)]_vars

\* C18: over the whole range of the size type, a read(n) that gets past its
\* check has n <= ppos_ - gpos_.
C18_ReadCheckSound ==
    [][(last'.op = "read" /\ last'.res # "fatal") =>
          last'.n <= inst[last'.i].ppos_ - inst[last'.i].gpos_]_vars

\* C19: over the whole range of the size type, a write(n) on an owned buffer
\* that gets past its checks copies its n bytes inside the region buf_ points
\* to and leaves ppos_ <= pend_.
C19_WriteGrowthSound ==
    [][(last'.op = "write" /\ ~inst[last'.i].const_buf_ /\ last'.res # "fatal") =>
          /\ last'.res = "ok"
          /\ InBounds(mem', inst'[last'.i].buf_, inst[last'.i].ppos_, last'.n)
          /\ inst'[last'.i].ppos_ <= inst'[last'.i].pend_]_vars

====
